---- MODULE Spec2Model ----
(***************************************************************************)
(* Model of linux-io's File (src/linux-io/src/lib.rs) on top of the        *)
(* riscv64 raw system call layer (src/linux-unsafe/src/raw/riscv64.rs).    *)
(*                                                                         *)
(* Machine words.  TLC's integers are 32 bits wide, so a 64-bit word (the  *)
(* type V = u64 of riscv64.rs) is a tuple of four 16-bit limbs, most       *)
(* significant first: <<l3, l2, l1, l0>> stands for                        *)
(* l3*2^48 + l2*2^32 + l1*2^16 + l0.  A 32-bit word (ulong of a 32-bit     *)
(* target) is a tuple of two limbs.                                        *)
(***************************************************************************)
EXTENDS Integers, Sequences, FiniteSets, TLC

VARIABLES
    fdt,      \* kernel: descriptor table, fd -> open file description
    disk,     \* kernel: path -> [exists, data]
    file,     \* thread -> the File it owns: [fd |-> int], or NoFile
    pc,       \* thread -> position inside the operation it is executing
    ret,      \* thread -> value returned by its last completed operation
    calls,    \* thread -> kernel calls issued by its current/last operation
    buf,      \* thread -> bytes the kernel stored in the buffer of the last read
    target,   \* pointer width of the build target (target_pointer_width)
    raw,      \* the raw result word handed to the decoder
    dec,      \* what the decoder returned for raw
    hist      \* history variable of the specification at hand

vars == <<fdt, disk, file, pc, ret, calls, buf, target, raw, dec, hist>>
kvars == <<fdt, disk>>
tvars == <<file, pc, ret, calls, buf>>
dvars == <<raw, dec>>

----------------------------------------------------------------------------
(* 64-bit and 32-bit words *)

Limb == 65536
LimbMax == 65535
LimbSign == 32768

ZeroWord == <<0, 0, 0, 0>>

\* The word of a natural number n < 2^31.
W64(n) == <<0, 0, n \div Limb, n % Limb>>

\* a >= b on u64 values (unsigned comparison, most significant limb first).
GeqU64(a, b) ==
    IF a[1] # b[1] THEN a[1] > b[1]
    ELSE IF a[2] # b[2] THEN a[2] > b[2]
    ELSE IF a[3] # b[3] THEN a[3] > b[3]
    ELSE a[4] >= b[4]

\* `raw as i32`: the low 32 bits of a u64, read as a signed 32-bit integer.
AsI32(w) ==
    IF w[3] >= LimbSign THEN (w[3] - Limb) * Limb + w[4]
    ELSE w[3] * Limb + w[4]

MinI32 == -2147483647 - 1

\* `-x` on i32.  -(i32::MIN) wraps to i32::MIN in a release build (a debug
\* build panics); unpack_standard_result never negates i32::MIN, because
\* the low 32 bits inside the error window are 0xFFFFF001..0xFFFFFFFF.
NegI32(x) == IF x = MinI32 THEN MinI32 ELSE 0 - x

\* `(-4095 as i64) as u64` = 0xFFFF_FFFF_FFFF_F001
ErrWindowLow == <<LimbMax, LimbMax, LimbMax, 61441>>

Ok(v) == [tag |-> "Ok", val |-> v]
Err(e) == [tag |-> "Err", err |-> e]
IsOk(r) == r.tag = "Ok"
IsErr(r) == r.tag = "Err"

unpack_standard_result_gt(w) ==
    IF GeqU64(w, ErrWindowLow) /\ w # ErrWindowLow
    THEN Err(NegI32(AsI32(w)))
    ELSE Ok(w)

unpack_standard_result(w) ==
    IF GeqU64(w, ErrWindowLow)
    THEN Err(NegI32(AsI32(w)))
    ELSE Ok(w)

----------------------------------------------------------------------------
(* The decoder applied to boundary words *)

None == [tag |-> "None"]

HighLimbs == {0, 32767, LimbSign, LimbMax}
LowLimbs == {0, 1, 61439, 61440, 61441, 61442, LimbMax}
RawInputs == {<<a, b, c, d>> : a \in HighLimbs, b \in HighLimbs,
                               c \in HighLimbs, d \in LowLimbs}

Unpack ==
    /\ dec = None
    /\ dec' = unpack_standard_result(raw)
    /\ UNCHANGED <<raw, kvars, tvars, target, hist>>


----------------------------------------------------------------------------
(* The kernel behind the system calls: descriptor table and files.  The    *)
(* calls are atomic; each returns its outcome and the kernel state after.  *)

MaxFd == 2        \* size of the descriptor table (RLIMIT_NOFILE)
MaxFileLen == 2   \* largest file offset the file system accepts
FirstFd == 3      \* 0, 1 and 2 are the standard streams

ENOENT == 2
EINTR == 4
EBADF == 9
EINVAL == 22
EMFILE == 24
EFBIG == 27

O_RDONLY == 0
O_WRONLY == 1
O_RDWR == 2
O_CREAT == 64
O_TRUNC == 512

SEEK_SET == 0
SEEK_CUR == 1
SEEK_END == 2

MaxIters == 3     \* create-and-drop iterations the history variable counts
MaxBuf == 2       \* longest buffer handed to read and write

FDs == FirstFd .. (FirstFd + MaxFd - 1)
Paths == {"a"}
Bytes == {1, 2}
Faults == {0, EINTR}   \* 0: the call is not interrupted
OpenFlags == {O_RDONLY, O_RDWR + O_CREAT}
\* What the kernel does with one read or write: fail it with an error, or
\* transfer at most lim bytes.
Moods == {[fault |-> EINTR, lim |-> 0]}
            \cup {[fault |-> 0, lim |-> n] : n \in 1 .. MaxBuf}
WriteBufs == {<<a>> : a \in Bytes} \cup {<<a, b>> : a \in Bytes, b \in Bytes}

ClosedDesc == [open |-> FALSE, path |-> "a", pos |-> 0, acc |-> O_RDONLY]
NoData == [exists |-> FALSE, data |-> <<>>]

KOk(v) == [ok |-> TRUE, val |-> v]
KFail(e) == [ok |-> FALSE, errno |-> e]

\* Two's complement of n, 1 <= n < 2^16, as a 64-bit word.
NegW64(n) == <<LimbMax, LimbMax, LimbMax, Limb - n>>

\* The raw result word the kernel leaves in a0: the value, or -errno.
KWord(out) == IF out.ok THEN W64(out.val) ELSE NegW64(out.errno)

Min(a, b) == IF a < b THEN a ELSE b
Max(a, b) == IF a > b THEN a ELSE b

IsOpen(t, fd) == fd \in FDs /\ t[fd].open

FreeFds(t) == {fd \in FDs : ~t[fd].open}
LowestFree(t) == CHOOSE fd \in FreeFds(t) : \A g \in FreeFds(t) : fd <= g

HasFlag(flags, bit) == (flags \div bit) % 2 = 1
AccMode(flags) == flags % 4

\* open(2)
KOpen(t, d, path, flags, fault) ==
    IF fault # 0 THEN [out |-> KFail(fault), fdt |-> t, disk |-> d]
    ELSE IF ~d[path].exists /\ ~HasFlag(flags, O_CREAT)
    THEN [out |-> KFail(ENOENT), fdt |-> t, disk |-> d]
    ELSE IF FreeFds(t) = {}
    THEN [out |-> KFail(EMFILE), fdt |-> t, disk |-> d]
    ELSE LET fd == LowestFree(t)
             old == IF d[path].exists THEN d[path].data ELSE <<>>
             new == IF HasFlag(flags, O_TRUNC) /\ AccMode(flags) # O_RDONLY
                    THEN <<>> ELSE old
         IN [out |-> KOk(fd),
             fdt |-> [t EXCEPT ![fd] = [open |-> TRUE, path |-> path, pos |-> 0,
                                        acc |-> AccMode(flags)]],
             disk |-> [d EXCEPT ![path] = [exists |-> TRUE, data |-> new]]]

\* creat(2) is open(2) with O_CREAT|O_WRONLY|O_TRUNC
KCreat(t, d, path, fault) == KOpen(t, d, path, O_CREAT + O_WRONLY + O_TRUNC, fault)

\* close(2): the descriptor is released even when the call reports an error
KClose(t, d, fd, fault) ==
    IF ~IsOpen(t, fd) THEN [out |-> KFail(EBADF), fdt |-> t, disk |-> d]
    ELSE [out |-> IF fault # 0 THEN KFail(fault) ELSE KOk(0),
          fdt |-> [t EXCEPT ![fd] = ClosedDesc], disk |-> d]

\* read(2) of at most n bytes; the kernel transfers at most lim of them
KRead(t, d, fd, n, lim, fault) ==
    IF ~IsOpen(t, fd) \/ t[fd].acc = O_WRONLY
    THEN [out |-> KFail(EBADF), fdt |-> t, disk |-> d, bytes |-> <<>>]
    ELSE IF fault # 0
    THEN [out |-> KFail(fault), fdt |-> t, disk |-> d, bytes |-> <<>>]
    ELSE LET data == d[t[fd].path].data
             pos == t[fd].pos
             k == Max(0, Min(Min(n, lim), Len(data) - pos))
         IN [out |-> KOk(k),
             fdt |-> [t EXCEPT ![fd].pos = pos + k],
             disk |-> d,
             bytes |-> SubSeq(data, pos + 1, pos + k)]

\* The file's bytes after storing w at offset pos (a gap reads as zeros).
Overwrite(data, pos, w) ==
    [i \in 1 .. Max(Len(data), pos + Len(w)) |->
        IF i > pos /\ i <= pos + Len(w) THEN w[i - pos]
        ELSE IF i <= Len(data) THEN data[i] ELSE 0]

\* write(2) of the bytes w; the kernel accepts at most lim of them
KWrite(t, d, fd, w, lim, fault) ==
    IF ~IsOpen(t, fd) \/ t[fd].acc = O_RDONLY
    THEN [out |-> KFail(EBADF), fdt |-> t, disk |-> d]
    ELSE IF fault # 0
    THEN [out |-> KFail(fault), fdt |-> t, disk |-> d]
    ELSE LET path == t[fd].path
             pos == t[fd].pos
             k == Min(Min(Len(w), lim), MaxFileLen - pos)
         IN IF k <= 0 /\ Len(w) > 0
            THEN [out |-> KFail(EFBIG), fdt |-> t, disk |-> d]
            ELSE [out |-> KOk(k),
                  fdt |-> [t EXCEPT ![fd].pos = pos + k],
                  disk |-> IF k = 0 THEN d
                           ELSE [d EXCEPT ![path].data =
                                    Overwrite(@, pos, SubSeq(w, 1, k))]]

\* A loff_t whose value the model's integers can hold.
OffInRange(w) ==
    \/ w[1] = 0 /\ w[2] = 0 /\ w[3] = 0
    \/ w[1] = LimbMax /\ w[2] = LimbMax /\ w[3] = LimbMax

\* The signed value of such a loff_t.
I64ToInt(w) ==
    IF w[1] = 0 THEN w[4] ELSE w[4] - Limb

\* lseek(2): off is the raw 64-bit loff_t, whence the origin code
KLseek(t, d, fd, off, whence) ==
    IF ~IsOpen(t, fd) THEN [out |-> KFail(EBADF), fdt |-> t, disk |-> d]
    ELSE IF whence \notin {SEEK_SET, SEEK_CUR, SEEK_END} \/ ~OffInRange(off)
    THEN [out |-> KFail(EINVAL), fdt |-> t, disk |-> d]
    ELSE LET base == IF whence = SEEK_SET THEN 0
                     ELSE IF whence = SEEK_CUR THEN t[fd].pos
                     ELSE Len(d[t[fd].path].data)
             new == base + I64ToInt(off)
         IN IF new < 0 \/ new > MaxFileLen
            THEN [out |-> KFail(EINVAL), fdt |-> t, disk |-> d]
            ELSE [out |-> KOk(new), fdt |-> [t EXCEPT ![fd].pos = new],
                  disk |-> d]

\* The raw result word of a 32-bit target.
KWord32(out) ==
    IF out.ok THEN <<out.val \div Limb, out.val % Limb>>
    ELSE <<LimbMax, Limb - out.errno>>

\* _llseek(2): the offset is (hi << 32) | lo; on success the new position
\* is stored through the result pointer and the call returns 0
KLlseek(t, d, fd, hi, lo, uwhence) ==
    LET whence == IF uwhence[1] = 0 THEN uwhence[2] ELSE 0 - 1
        r == KLseek(t, d, fd, hi \o lo, whence)
    IN [out |-> IF r.out.ok THEN KOk(0) ELSE r.out,
        result |-> IF r.out.ok THEN W64(r.out.val) ELSE ZeroWord,
        fdt |-> r.fdt, disk |-> r.disk]

\* syncfs(2)
KSyncfs(t, d, fd, fault) ==
    IF ~IsOpen(t, fd) THEN [out |-> KFail(EBADF), fdt |-> t, disk |-> d]
    ELSE [out |-> IF fault # 0 THEN KFail(fault) ELSE KOk(0),
          fdt |-> t, disk |-> d]

----------------------------------------------------------------------------
(* linux-io: Error, SeekFrom and the File methods *)

NoFile == [tag |-> "NoFile"]
NoRet == [op |-> "none"]

\* Error(pub i32), built by From<i32>
Error(e) == [code |-> e]

\* File { fd }
from_raw_fd(fd) == [fd |-> fd]

\* SeekFrom::Start(u64) | End(i64) | Current(i64); v holds the 64 bits
Start(v) == [tag |-> "Start", ty |-> "u64", v |-> v]
End(v) == [tag |-> "End", ty |-> "i64", v |-> v]
Current(v) == [tag |-> "Current", ty |-> "i64", v |-> v]

\* `v as loff_t`: loff_t is a 64-bit signed integer, the cast keeps the bits
for_raw_offset_trunc(pos) == [ty |-> "i64", v |-> <<0, 0, pos.v[3], pos.v[4]>>]

for_raw_offset(pos) == [ty |-> "i64", v |-> pos.v]

for_raw_whence_swapped(pos) ==
    CASE pos.tag = "Start" -> SEEK_CUR
      [] pos.tag = "End" -> SEEK_END
      [] pos.tag = "Current" -> SEEK_SET

for_raw_whence(pos) ==
    CASE pos.tag = "Start" -> SEEK_SET
      [] pos.tag = "End" -> SEEK_END
      [] pos.tag = "Current" -> SEEK_CUR

\* `x as uint` of an int: the 32-bit two's complement word
IntToU32(x) == <<(x \div Limb) % Limb, x % Limb>>

for_raw_uwhence(pos) == IntToU32(for_raw_whence(pos))

\* create_raw, after the creat call: lines 25-27
create_raw_always(w) == Ok(from_raw_fd(AsI32(w)))

create_raw(w) ==
    LET r == unpack_standard_result(w)
    IN IF IsOk(r) THEN Ok(from_raw_fd(AsI32(r.val))) ELSE Err(Error(r.err))

\* open_raw, after the open call: lines 44-46
open_raw(w) ==
    LET r == unpack_standard_result(w)
    IN IF IsOk(r) THEN Ok(from_raw_fd(AsI32(r.val))) ELSE Err(Error(r.err))

\* `.map(|_| ())` of close_mut and sync
Unit == <<>>

\* close_mut, after the close call: lines 62-64
close_mut(w) ==
    LET r == unpack_standard_result(w)
    IN IF IsOk(r) THEN Ok(Unit) ELSE Err(Error(r.err))

read_eof_err(w) ==
    LET r == unpack_standard_result(w)
    IN IF IsOk(r) /\ r.val # ZeroWord THEN Ok(r.val)
       ELSE IF IsOk(r) THEN Err(Error(0)) ELSE Err(Error(r.err))

\* read, after the read call: lines 72-74 (`v as usize` of a u64 on riscv64)
read(w) ==
    LET r == unpack_standard_result(w)
    IN IF IsOk(r) THEN Ok(r.val) ELSE Err(Error(r.err))

write_swallow_eintr(w) ==
    LET r == unpack_standard_result(w)
    IN IF IsOk(r) THEN Ok(r.val)
       ELSE IF r.err = EINTR THEN Ok(ZeroWord) ELSE Err(Error(r.err))

\* write, after the write call: lines 129-131
write(w) ==
    LET r == unpack_standard_result(w)
    IN IF IsOk(r) THEN Ok(r.val) ELSE Err(Error(r.err))

\* sync, after the syncfs call: lines 119-121
sync(w) ==
    LET r == unpack_standard_result(w)
    IN IF IsOk(r) THEN Ok(Unit) ELSE Err(Error(r.err))

\* seek on a 64-bit target, after the lseek call: lines 88-90
seek64(w) ==
    LET r == unpack_standard_result(w)
    IN IF IsOk(r) THEN Ok(r.val) ELSE Err(Error(r.err))

----------------------------------------------------------------------------
(* Threads.  Each thread owns at most one File at a time. *)

Threads == {"t1", "t2"}
T1 == "t1"

Ready(t) == pc[t] = "ready"
Holds(t) == file[t] # NoFile

\* Another thread's live File holds descriptor fd.
HeldByOther(t, fd) ==
    \E u \in Threads \ {t} : Ready(u) /\ Holds(u) /\ file[u].fd = fd

Call(t, nr, fd, k) ==
    [nr |-> nr, fd |-> fd, out |-> k.out, victim |-> HeldByOther(t, fd)]

SetKernel(k) == fdt' = k.fdt /\ disk' = k.disk

DropFile_leak(t, base, fault) ==
    /\ UNCHANGED <<fdt, disk>>
    /\ calls' = [calls EXCEPT ![t] = base]
    /\ file' = [file EXCEPT ![t] = NoFile]

\* <File as Drop>::drop: close_mut with the result discarded; base holds
\* the calls the enclosing operation has issued before the value is dropped.
DropFile(t, base, fault) ==
    LET fd == file[t].fd
        k == KClose(fdt, disk, fd, fault)
    IN /\ SetKernel(k)
       /\ calls' = [calls EXCEPT ![t] = Append(base, Call(t, "close", fd, k))]
       /\ file' = [file EXCEPT ![t] = NoFile]

\* File::create_raw(path, mode)
Create(t) ==
    /\ Ready(t) /\ ~Holds(t)
    /\ \E path \in Paths, fault \in Faults :
         LET k == KCreat(fdt, disk, path, fault)
             res == create_raw(KWord(k.out))
         IN /\ SetKernel(k)
            /\ file' = [file EXCEPT ![t] = IF IsOk(res) THEN res.val ELSE NoFile]
            /\ ret' = [ret EXCEPT ![t] = [op |-> "create", res |-> res]]
            /\ calls' = [calls EXCEPT ![t] =
                            <<[nr |-> "creat", path |-> path, out |-> k.out]>>]
    /\ UNCHANGED <<pc, buf, target, dvars>>

\* File::open_raw(path, flags, mode)
Open(t) ==
    /\ Ready(t) /\ ~Holds(t)
    /\ \E path \in Paths, flags \in OpenFlags, fault \in Faults :
         LET k == KOpen(fdt, disk, path, flags, fault)
             res == open_raw(KWord(k.out))
         IN /\ SetKernel(k)
            /\ file' = [file EXCEPT ![t] = IF IsOk(res) THEN res.val ELSE NoFile]
            /\ ret' = [ret EXCEPT ![t] = [op |-> "open", res |-> res]]
            /\ calls' = [calls EXCEPT ![t] =
                            <<[nr |-> "open", path |-> path, flags |-> flags,
                               out |-> k.out]>>]
    /\ UNCHANGED <<pc, buf, target, dvars>>

\* File::close(self), up to the return of close_mut; self is still in scope
Close(t) ==
    /\ Ready(t) /\ Holds(t)
    /\ \E fault \in Faults :
         LET fd == file[t].fd
             k == KClose(fdt, disk, fd, fault)
         IN /\ SetKernel(k)
            /\ ret' = [ret EXCEPT ![t] =
                          [op |-> "close", res |-> close_mut(KWord(k.out))]]
            /\ calls' = [calls EXCEPT ![t] = <<Call(t, "close", fd, k)>>]
    /\ pc' = [pc EXCEPT ![t] = "close_drop"]
    /\ UNCHANGED <<file, buf, target, dvars>>

\* File::close(self), its end: self goes out of scope and is dropped
CloseDrop(t) ==
    /\ pc[t] = "close_drop"
    /\ \E fault \in Faults : DropFile(t, calls[t], fault)
    /\ pc' = [pc EXCEPT ![t] = "ready"]
    /\ UNCHANGED <<ret, buf, target, dvars>>

\* A File goes out of scope without an explicit close
Drop(t) ==
    /\ Ready(t) /\ Holds(t)
    /\ \E fault \in Faults : DropFile(t, <<>>, fault)
    /\ ret' = [ret EXCEPT ![t] = [op |-> "drop", res |-> None]]
    /\ UNCHANGED <<pc, buf, target, dvars>>

\* <File as IntoRawFd>::into_raw_fd(self): self.fd is read, then self goes
\* out of scope and is dropped before the function returns
IntoRawFd(t) ==
    /\ Ready(t) /\ Holds(t)
    /\ \E fault \in Faults : DropFile(t, <<>>, fault)
    /\ ret' = [ret EXCEPT ![t] = [op |-> "into_raw_fd", res |-> file[t].fd]]
    /\ UNCHANGED <<pc, buf, target, dvars>>

\* File::read(buf)
Read(t) ==
    /\ Ready(t) /\ Holds(t)
    /\ \E n \in 1 .. MaxBuf, m \in Moods :
         LET fd == file[t].fd
             k == KRead(fdt, disk, fd, n, m.lim, m.fault)
         IN /\ SetKernel(k)
            /\ ret' = [ret EXCEPT ![t] =
                          [op |-> "read", res |-> read(KWord(k.out))]]
            /\ buf' = [buf EXCEPT ![t] = k.bytes]
            /\ calls' = [calls EXCEPT ![t] =
                            <<[nr |-> "read", fd |-> fd, len |-> n,
                               out |-> k.out]>>]
    /\ UNCHANGED <<file, pc, target, dvars>>

\* File::write(buf)
Write(t) ==
    /\ Ready(t) /\ Holds(t)
    /\ \E w \in WriteBufs, m \in Moods :
         LET fd == file[t].fd
             k == KWrite(fdt, disk, fd, w, m.lim, m.fault)
         IN /\ SetKernel(k)
            /\ ret' = [ret EXCEPT ![t] =
                          [op |-> "write", res |-> write(KWord(k.out))]]
            /\ calls' = [calls EXCEPT ![t] =
                            <<[nr |-> "write", fd |-> fd, bytes |-> w,
                               out |-> k.out]>>]
    /\ UNCHANGED <<file, pc, buf, target, dvars>>

\* File::sync()
Sync(t) ==
    /\ Ready(t) /\ Holds(t)
    /\ \E fault \in Faults :
         LET fd == file[t].fd
             k == KSyncfs(fdt, disk, fd, fault)
         IN /\ SetKernel(k)
            /\ ret' = [ret EXCEPT ![t] =
                          [op |-> "sync", res |-> sync(KWord(k.out))]]
            /\ calls' = [calls EXCEPT ![t] = <<Call(t, "syncfs", fd, k)>>]
    /\ UNCHANGED <<file, pc, buf, target, dvars>>


\* The decoder of a 32-bit target (V = u32): the window is -4095..-1 of
\* the 32-bit word.
unpack_standard_result32(w) ==
    IF w[1] = LimbMax /\ w[2] >= 61441 THEN Err(Limb - w[2]) ELSE Ok(w)

\* `((raw_offs as u64) >> 32) as ulong` on a 32-bit target
raw_offs_high(offs) == <<offs.v[1], offs.v[2]>>

\* `(raw_offs as u64) as ulong` on a 32-bit target
raw_offs_low(offs) == <<offs.v[3], offs.v[4]>>

\* seek on a 32-bit target, after the _llseek call: lines 106-112
seek32(status, result) ==
    LET r == unpack_standard_result32(status)
    IN IF IsOk(r) THEN Ok(result) ELSE Err(Error(r.err))

AllOnes == <<LimbMax, LimbMax, LimbMax, LimbMax>>
SeekOffsets ==
    {W64(0), W64(1), NegW64(1), <<0, 1, LimbSign, 2>>}
SeekInputs ==
    {Start(v) : v \in SeekOffsets} \cup {End(v) : v \in SeekOffsets}
        \cup {Current(v) : v \in SeekOffsets}

\* File::seek(pos)
Seek(t) ==
    /\ Ready(t) /\ Holds(t)
    /\ \E pos \in SeekInputs :
         LET fd == file[t].fd
             raw_offs == for_raw_offset(pos)
         IN IF target # 32
            THEN LET raw_whence == for_raw_whence(pos)
                     k == KLseek(fdt, disk, fd, raw_offs.v, raw_whence)
                 IN /\ SetKernel(k)
                    /\ ret' = [ret EXCEPT ![t] =
                                  [op |-> "seek",
                                   res |-> seek64(KWord(k.out))]]
                    /\ calls' = [calls EXCEPT ![t] =
                                    <<[nr |-> "lseek", fd |-> fd, pos |-> pos,
                                       off |-> raw_offs.v,
                                       whence |-> raw_whence, out |-> k.out]>>]
            ELSE LET hi == raw_offs_high(raw_offs)
                     lo == raw_offs_low(raw_offs)
                     raw_whence == for_raw_uwhence(pos)
                     k == KLlseek(fdt, disk, fd, hi, lo, raw_whence)
                 IN /\ SetKernel(k)
                    /\ ret' = [ret EXCEPT ![t] =
                                  [op |-> "seek",
                                   res |-> seek32(KWord32(k.out), k.result)]]
                    /\ calls' = [calls EXCEPT ![t] =
                                    <<[nr |-> "_llseek", fd |-> fd, pos |-> pos,
                                       hi |-> hi,
                                       lo |-> lo, whence |-> raw_whence,
                                       out |-> k.out, result |-> k.result]>>]
    /\ UNCHANGED <<file, pc, buf, target, dvars>>

----------------------------------------------------------------------------
(* Specifications *)

InitKernel ==
    /\ fdt = [fd \in FDs |-> ClosedDesc]
    /\ disk = [p \in Paths |-> NoData]

InitThreads ==
    /\ file = [t \in Threads |-> NoFile]
    /\ pc = [t \in Threads |-> "ready"]
    /\ ret = [t \in Threads |-> NoRet]
    /\ calls = [t \in Threads |-> <<>>]
    /\ buf = [t \in Threads |-> <<>>]

InitDecoder == raw = ZeroWord /\ dec = None

\* A riscv64 process that has opened nothing yet.
InitBase == InitKernel /\ InitThreads /\ InitDecoder /\ target = 64

\* Threads that create, open, sync, close, drop and release their Files.
Init == InitBase /\ hist = 0

Next ==
    \E t \in Threads :
        \/ Create(t) /\ UNCHANGED hist
        \/ Open(t) /\ UNCHANGED hist
        \/ Sync(t) /\ UNCHANGED hist
        \/ Close(t) /\ UNCHANGED hist
        \/ CloseDrop(t) /\ UNCHANGED hist
        \/ Drop(t) /\ UNCHANGED hist
        \/ IntoRawFd(t) /\ UNCHANGED hist

Spec == Init /\ [][Next]_vars

\* One thread doing I/O on its File.
NextIO ==
    \/ Create(T1) /\ UNCHANGED hist
    \/ Open(T1) /\ UNCHANGED hist
    \/ Read(T1) /\ UNCHANGED hist
    \/ Write(T1) /\ UNCHANGED hist
    \/ Seek(T1) /\ UNCHANGED hist
    \/ Sync(T1) /\ UNCHANGED hist
    \/ Close(T1) /\ UNCHANGED hist
    \/ CloseDrop(T1) /\ UNCHANGED hist
    \/ Drop(T1) /\ UNCHANGED hist

SpecIO == Init /\ [][NextIO]_vars

\* One thread that creates or opens Files and lets them go out of scope.
NextLoop ==
    \/ Create(T1) /\ UNCHANGED hist
    \/ Open(T1) /\ UNCHANGED hist
    \/ Write(T1) /\ UNCHANGED hist
    \/ Drop(T1) /\ hist' = Min(hist + 1, MaxIters)

SpecLoop == Init /\ [][NextLoop]_vars

\* The decoder on boundary words.
InitDecode ==
    /\ InitKernel /\ InitThreads /\ target = 64
    /\ raw \in RawInputs /\ dec = None /\ hist = 0

SpecDecode == InitDecode /\ [][Unpack]_vars

\* seek on a File open for reading and writing, on either kind of target.
FileData == {<<>>, <<1>>, <<1, 2>>}
InitSeek ==
    /\ target \in {32, 64}
    /\ \E data \in FileData, p \in 0 .. MaxFileLen :
         /\ fdt = [fd \in FDs |->
                     IF fd = FirstFd
                     THEN [open |-> TRUE, path |-> "a", pos |-> p, acc |-> O_RDWR]
                     ELSE ClosedDesc]
         /\ disk = [q \in Paths |-> [exists |-> TRUE, data |-> data]]
    /\ file = [t \in Threads |-> IF t = T1 THEN from_raw_fd(FirstFd) ELSE NoFile]
    /\ pc = [t \in Threads |-> "ready"]
    /\ ret = [t \in Threads |-> NoRet]
    /\ calls = [t \in Threads |-> <<>>]
    /\ buf = [t \in Threads |-> <<>>]
    /\ InitDecoder /\ hist = 0

NextSeek == Seek(T1) /\ UNCHANGED hist

SpecSeek == InitSeek /\ [][NextSeek]_vars


----------------------------------------------------------------------------
(* Test programs of one thread.  hist holds the program counter (step),    *)
(* the byte sequence B the program writes and the bytes it has read back   *)
(* (got).  A step that fails, or a write the kernel accepts only partly,   *)
(* aborts the program.                                                     *)

Then(ok, next) == [hist EXCEPT !.step = IF ok THEN next ELSE "abort"]
Arg(t) == calls'[t][1]
Returned(t, v) == ret'[t].res = Ok(v)

InitProgram(first) ==
    /\ InitBase
    /\ \E B \in WriteBufs : hist = [step |-> first, B |-> B, got |-> <<>>]

\* The read loop: collect bytes until the kernel reports end of stream.
ReadUntilEof(t, next) ==
    /\ Read(t)
    /\ hist' = IF IsErr(ret'[t].res) THEN [hist EXCEPT !.step = "abort"]
               ELSE IF buf'[t] = <<>> THEN [hist EXCEPT !.step = next]
               ELSE [hist EXCEPT !.got = @ \o buf'[t]]

\* create; write B; sync; close; reopen read-only; read to end of stream
NextRoundTrip ==
    \/ /\ hist.step = "create" /\ Create(T1)
       /\ hist' = Then(IsOk(ret'[T1].res), "write")
    \/ /\ hist.step = "write" /\ Write(T1) /\ Arg(T1).bytes = hist.B
       /\ hist' = Then(Returned(T1, W64(Len(hist.B))), "sync")
    \/ /\ hist.step = "sync" /\ Sync(T1)
       /\ hist' = Then(IsOk(ret'[T1].res), "close")
    \/ /\ hist.step = "close" /\ Close(T1)
       /\ hist' = [hist EXCEPT !.step = "close_drop"]
    \/ /\ hist.step = "close_drop" /\ CloseDrop(T1)
       /\ hist' = Then(IsOk(ret'[T1].res), "open")
    \/ /\ hist.step = "open" /\ Open(T1) /\ Arg(T1).flags = O_RDONLY
       /\ hist' = Then(IsOk(ret'[T1].res), "read")
    \/ /\ hist.step = "read" /\ ReadUntilEof(T1, "done")

SpecRoundTrip == InitProgram("create") /\ [][NextRoundTrip]_vars

\* open read-write; write B; seek(Current(0)); seek(Start(0)); read len(B)
\* bytes; seek(End(0)); read
NextSeekTest ==
    \/ /\ hist.step = "open" /\ Open(T1) /\ Arg(T1).flags = O_RDWR + O_CREAT
       /\ hist' = Then(IsOk(ret'[T1].res), "write")
    \/ /\ hist.step = "write" /\ Write(T1) /\ Arg(T1).bytes = hist.B
       /\ hist' = Then(Returned(T1, W64(Len(hist.B))), "seek_current")
    \/ /\ hist.step = "seek_current" /\ Seek(T1)
       /\ Arg(T1).pos = Current(W64(0))
       /\ hist' = Then(IsOk(ret'[T1].res), "seek_start")
    \/ /\ hist.step = "seek_start" /\ Seek(T1)
       /\ Arg(T1).pos = Start(W64(0))
       /\ hist' = Then(IsOk(ret'[T1].res), "read")
    \/ /\ hist.step = "read" /\ Read(T1)
       /\ hist' = IF IsErr(ret'[T1].res) THEN [hist EXCEPT !.step = "abort"]
                  ELSE IF buf'[T1] = <<>> THEN [hist EXCEPT !.step = "short"]
                  ELSE [hist EXCEPT !.got = @ \o buf'[T1],
                                    !.step = IF Len(hist.got \o buf'[T1])
                                                    >= Len(hist.B)
                                             THEN "seek_end" ELSE "read"]
    \/ /\ hist.step = "seek_end" /\ Seek(T1)
       /\ Arg(T1).pos = End(W64(0))
       /\ hist' = Then(IsOk(ret'[T1].res), "read_end")
    \/ /\ hist.step = "read_end" /\ Read(T1)
       /\ hist' = Then(IsOk(ret'[T1].res), "done")

SpecSeekTest == InitProgram("open") /\ [][NextSeekTest]_vars


----------------------------------------------------------------------------
(* Properties *)

\* The File result a kernel outcome must surface as, given the Ok value.
Surfaced(out, okval) == IF out.ok THEN Ok(okval) ELSE Err(Error(out.errno))

CloseCalls(t) == {i \in DOMAIN calls[t] : calls[t][i].nr = "close"}

\* C1: a completed File::close() has issued exactly one close call for the
\* handle's descriptor, counting the destruction of the consumed handle,
\* and has returned the decoded result of that call.
C1_CloseIssuesCloseOnce ==
    \A t \in Threads :
        (Ready(t) /\ ret[t].op = "close") =>
            /\ Cardinality(CloseCalls(t)) = 1
            /\ ret[t].res = Surfaced(calls[t][1].out, Unit)

\* C2: after into_raw_fd has returned descriptor d, the released handle
\* has issued no close call for d.
C2_ReleaseDoesNotClose ==
    \A t \in Threads :
        ret[t].op = "into_raw_fd" =>
            \A i \in CloseCalls(t) : calls[t][i].fd # ret[t].res

\* C3: a raw word that is -k as a signed 64-bit integer, 1 <= k <= 4095,
\* decodes to Err(k); every other word decodes to Ok of the same word.
C3_DecoderClassifies ==
    dec # None =>
        IF \E k \in 1 .. 4095 : raw = <<LimbMax, LimbMax, LimbMax, Limb - k>>
        THEN dec = Err(Limb - raw[4])
        ELSE dec = Ok(raw)

C3_Witness == raw = <<LimbMax, LimbMax, LimbMax, 61441>> /\ dec = Err(4095)

\* C4: no kernel call issued for one thread's File targets a descriptor
\* that another thread's live File holds at the moment of the call.
C4_NoCallOnAnothersDescriptor ==
    \A t \in Threads : \A i \in DOMAIN calls[t] :
        calls[t][i].nr \in {"close", "syncfs"} => ~calls[t][i].victim

OpenFds == {fd \in FDs : fdt[fd].open}

\* C5: a File that goes out of scope issues one close call for its
\* descriptor and discards the result; whenever the thread holds no File
\* no descriptor is open, and creat/open never fail for lack of
\* descriptors, however many Files were created and dropped.
C5_DropDoesNotLeak ==
    /\ ret[T1].op = "drop" =>
          /\ Len(calls[T1]) = 1 /\ calls[T1][1].nr = "close"
          /\ ret[T1].res = None
    /\ ~Holds(T1) => OpenFds = {}
    /\ Holds(T1) => OpenFds = {file[T1].fd}
    /\ ret[T1].op \in {"create", "open"} =>
          ret[T1].res # Err(Error(EMFILE))

C5_Witness ==
    /\ hist = MaxIters /\ MaxIters > MaxFd
    /\ ret[T1].op = "drop" /\ calls[T1][1].out.ok /\ OpenFds = {}

IsPrefix(a, b) == Len(a) <= Len(b) /\ a = SubSeq(b, 1, Len(a))

\* A test program aborts only on a failed call or a partly accepted write.
AbortsOnlyOnFailure ==
    hist.step = "abort" =>
        \/ ~calls[T1][1].out.ok
        \/ calls[T1][1].nr = "write" /\ calls[T1][1].out.val < Len(hist.B)

\* C6: after create, write of B (fully accepted), sync and close, the
\* reads of the reopened file return the bytes of B in order, and the read
\* at end of stream returns Ok(0).
C6_RoundTrip ==
    /\ IsPrefix(hist.got, hist.B)
    /\ hist.step = "done" =>
          /\ hist.got = hist.B
          /\ ret[T1] = [op |-> "read", res |-> Ok(W64(0))]
          /\ buf[T1] = <<>>
    /\ AbortsOnlyOnFailure

C6_Witness ==
    /\ hist.step = "done" /\ hist.B = <<2, 1>> /\ hist.got = <<2, 1>>
    /\ ret[T1].res = Ok(W64(0))

\* C7: after writing the N bytes of B, seek(Current(0)) returns N and
\* leaves the position at N, seek(Start(0)) followed by reads returns the
\* N bytes from the start, seek(End(0)) followed by a read returns zero
\* bytes, and every successful seek returns the new absolute position.
C7_SeekRepositions ==
    /\ (ret[T1].op = "seek" /\ IsOk(ret[T1].res)) =>
          ret[T1].res = Ok(W64(fdt[file[T1].fd].pos))
    /\ hist.step = "seek_start" =>
          /\ ret[T1].res = Ok(W64(Len(hist.B)))
          /\ fdt[file[T1].fd].pos = Len(hist.B)
    /\ IsPrefix(hist.got, hist.B)
    /\ hist.step = "seek_end" => hist.got = hist.B
    /\ hist.step # "short"
    /\ hist.step = "done" =>
          /\ ret[T1] = [op |-> "read", res |-> Ok(W64(0))]
          /\ buf[T1] = <<>>
    /\ AbortsOnlyOnFailure

C7_Witness ==
    /\ hist.step = "done" /\ hist.B = <<1, 2>> /\ hist.got = <<1, 2>>
    /\ ret[T1].res = Ok(W64(0))

\* C8: read, write, seek and sync issue exactly one kernel call each and
\* return its outcome: Ok of the count the kernel reported, however small,
\* or Err of the error code the kernel reported.
C8_OneCallPassThrough ==
    \A t \in Threads :
        LET c == calls[t][1]
        IN /\ ret[t].op \in {"read", "write", "seek"} =>
                Len(calls[t]) = 1 /\ ret[t].res = Surfaced(c.out, W64(c.out.val))
           /\ ret[t].op = "sync" =>
                Len(calls[t]) = 1 /\ ret[t].res = Surfaced(c.out, Unit)
           /\ ret[t].op = "read" =>
                c.nr = "read" /\ (c.out.ok => Len(buf[t]) = c.out.val)

C8_Witness ==
    /\ ret[T1].op = "read" /\ calls[T1][1].out.ok
    /\ calls[T1][1].out.val = 1 /\ calls[T1][1].len = 2
    /\ ret[T1].res = Ok(W64(1))

\* C9: a failed creat/open surfaces Err of the kernel's code, builds no File
\* and issues no further call; a successful one builds a File holding
\* exactly the descriptor the kernel returned.
C9_FailedOpenOwnsNothing ==
    \A t \in Threads :
        ret[t].op \in {"create", "open"} =>
            LET c == calls[t][1]
            IN /\ Len(calls[t]) = 1
               /\ c.nr = IF ret[t].op = "create" THEN "creat" ELSE "open"
               /\ IF c.out.ok
                  THEN /\ ret[t].res = Ok([fd |-> c.out.val])
                       /\ file[t] = [fd |-> c.out.val]
                  ELSE /\ ret[t].res = Err(Error(c.out.errno))
                       /\ file[t] = NoFile

C9_Witness ==
    \E t \in Threads :
        /\ ret[t] = [op |-> "open", res |-> Err(Error(ENOENT))]
        /\ file[t] = NoFile /\ OpenFds = {} /\ ~disk["a"].exists

WhenceOf(pos) ==
    IF pos.tag = "Start" THEN 0 ELSE IF pos.tag = "Current" THEN 1 ELSE 2

\* C10: seek hands the kernel the origin code of the SeekFrom and its 64
\* offset bits, as one word to lseek or as high and low halves with
\* high * 2^32 + low equal to the offset to _llseek, and a successful
\* _llseek returns the position stored through the result pointer.
C10_SeekArguments ==
    ret[T1].op = "seek" =>
        LET c == calls[T1][1]
            size == Len(disk["a"].data)
        IN /\ IF target = 64
              THEN /\ c.nr = "lseek"
                   /\ c.off = c.pos.v
                   /\ c.whence = WhenceOf(c.pos)
                   /\ ret[T1].res = Surfaced(c.out, W64(c.out.val))
              ELSE /\ c.nr = "_llseek"
                   /\ Len(c.hi) = 2 /\ Len(c.lo) = 2
                   /\ c.hi \o c.lo = c.pos.v
                   /\ c.whence = <<0, WhenceOf(c.pos)>>
                   /\ ret[T1].res = Surfaced(c.out, c.result)
           /\ c.out.ok =>
                /\ c.pos.tag = "Start" => W64(fdt[FirstFd].pos) = c.pos.v
                /\ c.pos = End(W64(0)) => fdt[FirstFd].pos = size
                /\ c.pos = End(NegW64(1)) => fdt[FirstFd].pos = size - 1
                /\ ret[T1].res = Ok(W64(fdt[FirstFd].pos))

C10_Witness ==
    /\ target = 32 /\ ret[T1] = [op |-> "seek", res |-> Ok(W64(1))]
    /\ calls[T1][1].pos = End(NegW64(1))
    /\ calls[T1][1].hi = <<LimbMax, LimbMax>>
    /\ calls[T1][1].out = KOk(0)

====
